---- MODULE Spec2Model ----
(***************************************************************************)
(* Model of the two notebooks of pytorch-notes:                            *)
(*   - "BLSTM处理变长序列" (src/unnamed/part_000): a batch of sentences is  *)
(*     indexed, padded, sorted by descending length, embedded, packed, run *)
(*     through a bidirectional LSTM, and the results are put back in the   *)
(*     original order;                                                     *)
(*   - "等长卷积实现机制": a padded batch is embedded, zero-padded along    *)
(*     the sequence axis and convolved.                                    *)
(* Each notebook is a straight-line script; one action per statement       *)
(* group of a cell.  Rows and positions are numbered from 1 here (Python   *)
(* numbers them from 0): row i of the code is row i+1 of the model and     *)
(* timestep t of the code is position t+1.                                 *)
(*                                                                         *)
(* Real-valued tensors are modelled symbolically: an embedding vector is   *)
(* the term Emb(k), an LSTM state is the term "parameters plus the inputs  *)
(* consumed so far, in order", a convolution output is the window of       *)
(* inputs it combines.  Two values that are equal as terms are equal as    *)
(* numbers.                                                                *)
(***************************************************************************)
EXTENDS Integers, Sequences, FiniteSets, TLC

VARIABLES
    pc,                 \* position in the BLSTM notebook
    weight_i, weight_h, bias_i, bias_h,             \* forward parameters
    weight_i_r, weight_h_r, bias_i_r, bias_h_r,     \* reverse parameters
    sentences, test_sent_idx, alphabet, voc_size,
    lengths, max_len, batch_size, inputs, indices,
    inputs_packed, lstm_output, lstm_hidden, lstm_cell_state,
    indices_recover, lstm_hidden_recover,
    lstm_output_pad, lstm_output_pad_recover, lengths_recover,
    hidden_last, hidden_last_r,
    cpc,                \* position in the convolution notebook
    batch_x, batch_x_embed, window_size,
    pad_size, batch_x_embed_padded, conv_output,
    conv_raised         \* whether the last conv_encoder call raised

paramVars == <<weight_i, weight_h, bias_i, bias_h,
               weight_i_r, weight_h_r, bias_i_r, bias_h_r>>
dataVars == <<sentences, test_sent_idx, alphabet, voc_size,
              lengths, max_len, batch_size, inputs, indices, inputs_packed>>
lstmOutVars == <<lstm_output, lstm_hidden, lstm_cell_state>>
recoverVars == <<indices_recover, lstm_hidden_recover>>
unpackVars == <<lstm_output_pad, lstm_output_pad_recover, lengths_recover,
                hidden_last, hidden_last_r>>
lstmVars == <<pc, paramVars, dataVars, lstmOutVars, recoverVars, unpackVars>>
convVars == <<cpc, batch_x, batch_x_embed, window_size,
              pad_size, batch_x_embed_padded, conv_output, conv_raised>>
vars == <<lstmVars, convVars>>

\* A name not yet bound in the notebook's namespace holds the empty tensor.
Unset == <<>>

----------------------------------------------------------------------------
(* Bounds of the model *)

MaxBatch == 2
MaxSentLen == 2
MaxWindow == 4
MaxConvLen == 4
MaxConvBatch == 2

----------------------------------------------------------------------------
(* Generic helpers *)

Range(s) == {s[i] : i \in DOMAIN s}

SeqsUpTo(S, n) == UNION {[1..k -> S] : k \in 0..n}

Min(a, b) == IF a <= b THEN a ELSE b

RECURSIVE SumSeq(_)
SumSeq(s) == IF s = <<>> THEN 0 ELSE Head(s) + SumSeq(Tail(s))

RECURSIVE Concat(_)
Concat(ss) == IF ss = <<>> THEN <<>> ELSE Head(ss) \o Concat(Tail(ss))

Reverse(s) == [k \in 1..Len(s) |-> s[Len(s) + 1 - k]]

Perms(n) == {p \in [1..n -> 1..n] : \A a, b \in 1..n : a # b => p[a] # p[b]}

----------------------------------------------------------------------------
(* The BLSTM notebook: data *)

Words == {"can", "a"}

NotebookSentences ==
    << <<"nice", "day">>, <<"I", "like", "to", "eat", "apple">>, <<"can", "a", "can">> >>

TestSentIdx == 2

\* The batches the data cell is run on: every batch within the bounds and
\* the notebook's own batch.
SentenceInputs ==
    {NotebookSentences} \cup SeqsUpTo(SeqsUpTo(Words, MaxSentLen), MaxBatch)

\* The values of test_sent_idx for a batch: the notebook's value for the
\* notebook's batch, any row of another batch.
TestIdxInputs(b) ==
    IF b = NotebookSentences THEN {TestSentIdx}
    ELSE IF b = <<>> THEN {0}
    ELSE 0..(Len(b) - 1)

\* for sentence in sentences: for word in sentence:
\*     if word not in alphabet: alphabet[word] = index; index += 1
RECURSIVE AddWords(_, _, _)
AddWords(words, alpha, index) ==
    IF words = <<>> THEN alpha
    ELSE IF Head(words) \in DOMAIN alpha
         THEN AddWords(Tail(words), alpha, index)
         ELSE AddWords(Tail(words), alpha @@ (Head(words) :> index), index + 1)

\* Mutant of BuildAlphabet: the index counter starts at 0, the padding value.
BuildAlphabetFromZero(sents) == AddWords(Concat(sents), <<>>, 0)

BuildAlphabet(sents) == AddWords(Concat(sents), <<>>, 1)

\* max(lengths); Python raises ValueError on an empty list.
MaxOf(ls) == CHOOSE m \in Range(ls) : \A x \in Range(ls) : x <= m

\* inputs = np.zeros(...); inputs[i, :lengths[i]] = ids
PadRow(ids, width) == [t \in 1..width |-> IF t <= Len(ids) THEN ids[t] ELSE 0]

PadBatch(sents, alpha, width) ==
    [i \in 1..Len(sents) |-> PadRow([t \in 1..Len(sents[i]) |-> alpha[sents[i][t]]], width)]

\* torch.sort(lengths, descending=True): the permutations that put the
\* lengths in descending order; the order of equal lengths is not specified.
SortDescending(ls) ==
    {p \in Perms(Len(ls)) : \A a, b \in 1..Len(ls) : a < b => ls[p[a]] >= ls[p[b]]}

\* Mutant of SortAscendingIndex: indices itself is used to restore the order.
SortAscendingIndexIdentity(ix) == ix

\* _, indices_recover = torch.sort(indices): the permutation that puts
\* indices in ascending order.
SortAscendingIndex(ix) ==
    CHOOSE q \in Perms(Len(ix)) : \A a, b \in 1..Len(ix) : a < b => ix[q[a]] <= ix[q[b]]

\* x[p] for an index tensor p: row k of the result is row p[k] of x.
Gather(x, p) == [k \in 1..Len(p) |-> x[p[k]]]

\* nn.Embedding(voc_size, input_size, padding_idx=0): a lookup table whose
\* row padding_idx is the zero vector.
ZeroVec == [zero |-> TRUE]
Emb(k) == IF k = 0 THEN ZeroVec ELSE [emb |-> k]

Embed(x) == [i \in 1..Len(x) |-> [t \in 1..Len(x[i]) |-> Emb(x[i][t])]]

----------------------------------------------------------------------------
(* pack_padded_sequence, the LSTM over a packed sequence, pad_packed_sequence *)

\* Mutant of Slab: every row of the batch is taken, not the first c.
SlabAllRows(x, prev_l, l, c) ==
    Concat([k \in 1..(Min(l, Len(x[1])) - prev_l) |-> [r \in 1..Len(x) |-> x[r][prev_l + k]]])

\* input[prev_l:l, :c] flattened timestep by timestep (the slice is clipped
\* to the tensor's width, as Python slicing does).
Slab(x, prev_l, l, c) ==
    Concat([k \in 1..(Min(l, Len(x[1])) - prev_l) |-> [r \in 1..c |-> x[r][prev_l + k]]])

\* What inputs_packed holds when no PackedSequence was built.
NoPacked == [ok |-> FALSE, data |-> <<>>, batch_sizes |-> <<>>]

\* Mutant of PackSteps: the batch size is recorded once per distinct length
\* instead of once per timestep.
RECURSIVE PackStepsOncePerLength(_, _, _, _, _, _)
PackStepsOncePerLength(x, ls, i, prev_l, data, bs) ==
    IF i = Len(ls) THEN [ok |-> TRUE, data |-> data, batch_sizes |-> bs]
    ELSE LET l == ls[Len(ls) - i]
             c == Len(ls) - i
         IN  IF l > prev_l
             THEN PackStepsOncePerLength(x, ls, i + 1, l, data \o Slab(x, prev_l, l, c),
                                         bs \o <<c>>)
             ELSE IF prev_l > l THEN NoPacked
             ELSE PackStepsOncePerLength(x, ls, i + 1, prev_l, data, bs)

\* The loop of pack_padded_sequence over reversed(lengths): i counts the
\* rows already visited, from the last (shortest) row.
RECURSIVE PackSteps(_, _, _, _, _, _)
PackSteps(x, ls, i, prev_l, data, bs) ==
    IF i = Len(ls) THEN [ok |-> TRUE, data |-> data, batch_sizes |-> bs]
    ELSE LET l == ls[Len(ls) - i]
             c == Len(ls) - i
         IN  IF l > prev_l
             THEN PackSteps(x, ls, i + 1, l, data \o Slab(x, prev_l, l, c),
                            bs \o [k \in 1..(l - prev_l) |-> c])
             ELSE IF prev_l > l THEN NoPacked
             ELSE PackSteps(x, ls, i + 1, prev_l, data, bs)

\* Mutant of PackPaddedSequence: no check that the lengths are positive.
PackPaddedSequenceNoCheck(x, ls) == PackSteps(x, ls, 0, 0, <<>>, <<>>)

\* pack_padded_sequence(input, lengths, batch_first=True): raises ValueError
\* when the last length is <= 0 or the lengths are not in decreasing order.
PackPaddedSequence(x, ls) ==
    IF ls[Len(ls)] <= 0 THEN NoPacked
    ELSE PackSteps(x, ls, 0, 0, <<>>, <<>>)

\* One LSTM cell step: the new (h, c) state is a function of the direction's
\* parameters, the input and the previous state.
ZeroState == [zero |-> TRUE]
LSTMCell(theta, x, hx) == [theta |-> theta, x |-> x, prev |-> hx]

\* The hidden and the cell component of a state.
HiddenOf(st) == [h |-> st]
CellOf(st) == [c |-> st]

\* Mutant of FwdSteps: the states set aside are joined to the last ones in
\* the order they were set aside.
RECURSIVE FwdStepsEndedFirst(_, _, _, _, _, _, _, _)
FwdStepsEndedFirst(theta, data, bs, t, offset, hidden, ended, out) ==
    IF t > Len(bs) THEN [final |-> ended \o hidden, out |-> out]
    ELSE LET b == bs[t]
             h2 == [r \in 1..b |-> LSTMCell(theta, data[offset + r], hidden[r])]
         IN  FwdStepsEndedFirst(theta, data, bs, t + 1, offset + b, h2,
                                SubSeq(hidden, b + 1, Len(hidden)) \o ended, out \o h2)

\* Forward direction over the packed data: at each timestep the first
\* batch_sizes[t] rows are advanced; the rows that ended are set aside with
\* their state.
RECURSIVE FwdSteps(_, _, _, _, _, _, _, _)
FwdSteps(theta, data, bs, t, offset, hidden, ended, out) ==
    IF t > Len(bs) THEN [final |-> hidden \o ended, out |-> out]
    ELSE LET b == bs[t]
             h2 == [r \in 1..b |-> LSTMCell(theta, data[offset + r], hidden[r])]
         IN  FwdSteps(theta, data, bs, t + 1, offset + b, h2,
                      SubSeq(hidden, b + 1, Len(hidden)) \o ended, out \o h2)

\* Reverse direction over the packed data: timesteps from the last to the
\* first; a row joins, with the initial state, at its own last timestep.
RECURSIVE BwdSteps(_, _, _, _, _, _, _)
BwdSteps(theta, data, bs, t, offset, hidden, out) ==
    IF t < 1 THEN [final |-> hidden, out |-> out]
    ELSE LET b == bs[t]
             grown == hidden \o [r \in 1..(b - Len(hidden)) |-> ZeroState]
             h2 == [r \in 1..b |-> LSTMCell(theta, data[offset - b + r], grown[r])]
         IN  BwdSteps(theta, data, bs, t - 1, offset - b, h2, h2 \o out)

\* Mutant of LSTM: the reverse direction runs over each padded row from the
\* last position of the batch, padding included.
RECURSIVE FoldPadded(_, _, _)
FoldPadded(theta, xs, hx) ==
    IF xs = <<>> THEN hx ELSE FoldPadded(theta, Tail(xs), LSTMCell(theta, Head(xs), hx))

LSTMBackwardOverPadding(thetaF, thetaR, packed) ==
    LET data == packed.data
        bs == packed.batch_sizes
        f == FwdSteps(thetaF, data, bs, 1, 0, [r \in 1..bs[1] |-> ZeroState], <<>>, <<>>)
        b == BwdSteps(thetaR, data, bs, Len(bs), Len(data),
                      [r \in 1..bs[Len(bs)] |-> ZeroState], <<>>)
        bfinal == [r \in 1..bs[1] |-> FoldPadded(thetaR, Reverse(inputs[r]), ZeroState)]
    IN  [output |-> [ok |-> TRUE,
                     data |-> [k \in 1..Len(data) |-> <<HiddenOf(f.out[k]), HiddenOf(b.out[k])>>],
                     batch_sizes |-> bs],
         h_n |-> << [r \in 1..bs[1] |-> HiddenOf(f.final[r])],
                    [r \in 1..bs[1] |-> HiddenOf(bfinal[r])] >>,
         c_n |-> << [r \in 1..bs[1] |-> CellOf(f.final[r])],
                    [r \in 1..bs[1] |-> CellOf(bfinal[r])] >>]

\* lstm(inputs_packed) for a 1-layer bidirectional LSTM: the packed output
\* (forward and reverse hidden states side by side) and (h_n, c_n), each
\* indexed [direction][row].
LSTM(thetaF, thetaR, packed) ==
    LET data == packed.data
        bs == packed.batch_sizes
        f == FwdSteps(thetaF, data, bs, 1, 0, [r \in 1..bs[1] |-> ZeroState], <<>>, <<>>)
        b == BwdSteps(thetaR, data, bs, Len(bs), Len(data),
                      [r \in 1..bs[Len(bs)] |-> ZeroState], <<>>)
    IN  [output |-> [ok |-> TRUE,
                     data |-> [k \in 1..Len(data) |-> <<HiddenOf(f.out[k]), HiddenOf(b.out[k])>>],
                     batch_sizes |-> bs],
         h_n |-> << [r \in 1..bs[1] |-> HiddenOf(f.final[r])],
                    [r \in 1..bs[1] |-> HiddenOf(b.final[r])] >>,
         c_n |-> << [r \in 1..bs[1] |-> CellOf(f.final[r])],
                    [r \in 1..bs[1] |-> CellOf(b.final[r])] >>]

\* x.transpose(0, 1) of a [direction][row] tensor.
Transpose01(x) == [r \in 1..Len(x[1]) |-> [d \in 1..Len(x) |-> x[d][r]]]

\* The padding value of pad_packed_sequence (0.0 in every component).
PadOut == <<ZeroVec, ZeroVec>>

\* The loop of pad_packed_sequence over batch_sizes: output[t, :b] is filled
\* from the data; when the batch size drops at position t, the rows that
\* dropped have length t - 1.
RECURSIVE UnpackSteps(_, _, _, _, _, _, _)
UnpackSteps(data, bs, t, offset, prev_b, output, ls) ==
    IF t > Len(bs) THEN [output |-> output,
                         lengths |-> Reverse(ls \o [k \in 1..prev_b |-> Len(bs)])]
    ELSE LET b == bs[t]
             out2 == [r \in 1..Len(output) |->
                        IF r <= b THEN [output[r] EXCEPT ![t] = data[offset + r]]
                        ELSE output[r]]
         IN  UnpackSteps(data, bs, t + 1, offset + b, b, out2,
                         ls \o [k \in 1..(prev_b - b) |-> t - 1])

\* pad_packed_sequence(sequence, batch_first=True)
PadPackedSequence(packed) ==
    UnpackSteps(packed.data, packed.batch_sizes, 1, 0, packed.batch_sizes[1],
                [r \in 1..packed.batch_sizes[1] |-> [t \in 1..Len(packed.batch_sizes) |-> PadOut]],
                <<>>)

----------------------------------------------------------------------------
(* The BLSTM notebook: cells *)

\* The value torch.nn.init.constant_(b, 0.1) writes.
BiasConst == "0.1"

\* The parameter set of each direction, as the LSTM reads it.
ThetaF == [w_ih |-> weight_i, w_hh |-> weight_h, b_ih |-> bias_h, b_hh |-> bias_i]
ThetaR == [w_ih |-> weight_i_r, w_hh |-> weight_h_r, b_ih |-> bias_h_r, b_hh |-> bias_i_r]

ConvIdle ==
    /\ cpc = "idle"
    /\ batch_x = Unset /\ batch_x_embed = Unset /\ window_size = 0
    /\ pad_size = 0 /\ batch_x_embed_padded = Unset
    /\ conv_output = Unset /\ conv_raised = FALSE

DataUnset ==
    /\ sentences = Unset /\ test_sent_idx = 0 /\ alphabet = <<>> /\ voc_size = 0
    /\ lengths = Unset /\ max_len = 0 /\ batch_size = 0 /\ inputs = Unset
    /\ indices = Unset /\ inputs_packed = NoPacked
    /\ lstm_output = NoPacked /\ lstm_hidden = Unset /\ lstm_cell_state = Unset
    /\ indices_recover = Unset /\ lstm_hidden_recover = Unset
    /\ lstm_output_pad = Unset /\ lstm_output_pad_recover = Unset
    /\ lengths_recover = Unset /\ hidden_last = Unset /\ hidden_last_r = Unset

\* After lstm = nn.LSTM(...): every parameter holds its random initial
\* value; a reverse parameter may or may not differ from its forward one.
Init ==
    /\ pc = "params"
    /\ weight_i = "w_ih" /\ weight_h = "w_hh" /\ bias_i = "b_hh" /\ bias_h = "b_ih"
    /\ weight_i_r \in {"w_ih", "w_ih_reverse"}
    /\ weight_h_r \in {"w_hh", "w_hh_reverse"}
    /\ bias_i_r \in {"b_hh", "b_hh_reverse"}
    /\ bias_h_r \in {"b_ih", "b_ih_reverse"}
    /\ DataUnset
    /\ ConvIdle

\* The cell that sets the reverse parameters to the forward ones.
SetParams ==
    /\ pc = "params"
    /\ weight_i_r' = weight_i
    /\ weight_h_r' = weight_h
    /\ bias_i' = BiasConst
    /\ bias_h' = BiasConst
    /\ bias_i_r' = bias_i'
    /\ bias_h_r' = bias_h'
    /\ pc' = "data"
    /\ UNCHANGED <<weight_i, weight_h, dataVars, lstmOutVars, recoverVars, unpackVars, convVars>>

\* The data cell up to inputs = torch.LongTensor(inputs).
BuildData ==
    /\ pc = "data"
    /\ \E b \in SentenceInputs : \E k \in TestIdxInputs(b) :
        /\ sentences' = b
        /\ test_sent_idx' = k
    /\ alphabet' = BuildAlphabet(sentences')
    /\ voc_size' = Cardinality(DOMAIN alphabet') + 1
    /\ lengths' = [i \in 1..Len(sentences') |-> Len(sentences'[i])]
    /\ IF lengths' = <<>>
       THEN /\ pc' = "error"
            /\ UNCHANGED <<max_len, batch_size, inputs>>
       ELSE /\ max_len' = MaxOf(lengths')
            /\ batch_size' = Len(sentences')
            /\ inputs' = PadBatch(sentences', alphabet', max_len')
            /\ pc' = "sort"
    /\ UNCHANGED <<paramVars, indices, inputs_packed, lstmOutVars, recoverVars, unpackVars, convVars>>

\* Mutant of SortByLength: the lengths are sorted and the rows of inputs are
\* left in their original order.
SortByLengthRowsNotReordered ==
    /\ pc = "sort"
    /\ \E p \in SortDescending(lengths) :
        /\ indices' = p
        /\ lengths' = Gather(lengths, p)
    /\ pc' = "embed"
    /\ UNCHANGED <<paramVars, sentences, test_sent_idx, alphabet, voc_size, max_len, batch_size,
                   inputs, inputs_packed, lstmOutVars, recoverVars, unpackVars, convVars>>

\* lengths, indices = torch.sort(lengths, descending=True); inputs = inputs[indices]
SortByLength ==
    /\ pc = "sort"
    /\ \E p \in SortDescending(lengths) :
        /\ indices' = p
        /\ lengths' = Gather(lengths, p)
        /\ inputs' = Gather(inputs, p)
    /\ pc' = "embed"
    /\ UNCHANGED <<paramVars, sentences, test_sent_idx, alphabet, voc_size, max_len, batch_size,
                   inputs_packed, lstmOutVars, recoverVars, unpackVars, convVars>>

\* embedding = nn.Embedding(voc_size, input_size, padding_idx=0); inputs = embedding(inputs)
EmbedInputs ==
    /\ pc = "embed"
    /\ inputs' = Embed(inputs)
    /\ pc' = "pack"
    /\ UNCHANGED <<paramVars, sentences, test_sent_idx, alphabet, voc_size, lengths, max_len,
                   batch_size, indices, inputs_packed, lstmOutVars, recoverVars, unpackVars, convVars>>

\* inputs_packed = pack_padded_sequence(inputs, lengths, True)
Pack ==
    /\ pc = "pack"
    /\ LET r == PackPaddedSequence(inputs, lengths)
       IN  IF r.ok
           THEN /\ inputs_packed' = r
                /\ pc' = "lstm"
           ELSE /\ pc' = "error"
                /\ UNCHANGED inputs_packed
    /\ UNCHANGED <<paramVars, sentences, test_sent_idx, alphabet, voc_size, lengths, max_len,
                   batch_size, inputs, indices, lstmOutVars, recoverVars, unpackVars, convVars>>

\* lstm_output, lstm_hidden = lstm(inputs_packed); the (h_n, c_n) pair is
\* split and h_n transposed to [row][direction].
RunLstm ==
    /\ pc = "lstm"
    /\ LET r == LSTM(ThetaF, ThetaR, inputs_packed)
       IN  /\ lstm_output' = r.output
           /\ lstm_hidden' = Transpose01(r.h_n)
           /\ lstm_cell_state' = r.c_n
    /\ pc' = "recover"
    /\ UNCHANGED <<paramVars, dataVars, recoverVars, unpackVars, convVars>>

\* _, indices_recover = torch.sort(indices); lstm_hidden_recover = lstm_hidden[indices_recover]
Recover ==
    /\ pc = "recover"
    /\ indices_recover' = SortAscendingIndex(indices)
    /\ lstm_hidden_recover' = Gather(lstm_hidden, indices_recover')
    /\ pc' = "unpack"
    /\ UNCHANGED <<paramVars, dataVars, lstmOutVars, unpackVars, convVars>>

\* Mutant of Unpack: the forward state is read at the last position of the
\* padded row instead of the row's own last position.
UnpackLastPaddedPosition ==
    /\ pc = "unpack"
    /\ LET r == PadPackedSequence(lstm_output)
           row == test_sent_idx + 1
       IN  /\ lstm_output_pad' = r.output
           /\ lengths' = r.lengths
           /\ lstm_output_pad_recover' = Gather(r.output, indices_recover)
           /\ lengths_recover' = Gather(r.lengths, indices_recover)
           /\ hidden_last' = lstm_output_pad_recover'[row][max_len][1]
           /\ hidden_last_r' = lstm_output_pad_recover'[row][1][2]
    /\ pc' = "done"
    /\ UNCHANGED <<paramVars, sentences, test_sent_idx, alphabet, voc_size, max_len, batch_size,
                   inputs, indices, inputs_packed, lstmOutVars, recoverVars, convVars>>

\* The last cell: pad_packed_sequence, the reordering of its two results,
\* and the two states read off row test_sent_idx.
Unpack ==
    /\ pc = "unpack"
    /\ LET r == PadPackedSequence(lstm_output)
           row == test_sent_idx + 1
       IN  /\ lstm_output_pad' = r.output
           /\ lengths' = r.lengths
           /\ lstm_output_pad_recover' = Gather(r.output, indices_recover)
           /\ lengths_recover' = Gather(r.lengths, indices_recover)
           /\ hidden_last' = lstm_output_pad_recover'[row][lengths_recover'[row]][1]
           /\ hidden_last_r' = lstm_output_pad_recover'[row][1][2]
    /\ pc' = "done"
    /\ UNCHANGED <<paramVars, sentences, test_sent_idx, alphabet, voc_size, max_len, batch_size,
                   inputs, indices, inputs_packed, lstmOutVars, recoverVars, convVars>>

Next ==
    \/ SetParams
    \/ BuildData
    \/ SortByLength
    \/ EmbedInputs
    \/ Pack
    \/ RunLstm
    \/ Recover
    \/ Unpack

Spec == Init /\ [][Next]_vars

----------------------------------------------------------------------------
(* The convolution notebook *)

filter_num == 12

NotebookBatchX ==
    << <<1, 2, 3, 4, 5, 0, 0, 0>>, <<1, 2, 3, 4, 5, 6, 7, 8>>, <<1, 2, 0, 0, 0, 0, 0, 0>> >>

\* The batches of the model: rows 1, 2, .., l right-padded with 0 to a common
\* width, as in the notebook, and the notebook's own batch.
ConvBatches ==
    {NotebookBatchX}
    \cup UNION {UNION {[1..n -> {PadRow([k \in 1..l |-> k], w) : l \in 1..w}]
                       : n \in 1..MaxConvBatch} : w \in 1..MaxConvLen}

\* x.unsqueeze(1): a channel axis of size 1 after the batch axis.
Unsqueeze1(x) == [b \in 1..Len(x) |-> <<x[b]>>]

\* Mutant of PadSize: the halving is left out.
PadSizeNoHalving(w) == w - 1

\* pad_size = (window_size-1) // 2
PadSize(w) == (w - 1) \div 2

\* nn.ZeroPad2d((0, 0, top, bottom)): zero rows before and after the
\* sequence axis; the embedding axis is left as it is.
ZeroPad2d(x, top, bottom) ==
    [b \in 1..Len(x) |-> [ch \in 1..Len(x[b]) |->
        [k \in 1..top |-> ZeroVec] \o x[b][ch] \o [k \in 1..bottom |-> ZeroVec]]]

\* Whether Conv2d raises: the kernel is longer than the (padded) input.
ConvRaises(x, w) == \E b \in 1..Len(x) : Len(x[b][1]) < w

\* conv_encoder(x) for kernel_size=(w, input_dim), stride 1, no padding: one
\* output per filter and per window of w consecutive positions.
Conv2d(x, w) ==
    [b \in 1..Len(x) |-> [f \in 1..filter_num |->
        [p \in 1..(Len(x[b][1]) - w + 1) |-> [filter |-> f, window |-> SubSeq(x[b][1], p, p + w - 1)]]]]

LstmIdle ==
    /\ pc = "idle"
    /\ weight_i = "w_ih" /\ weight_h = "w_hh" /\ bias_i = "b_hh" /\ bias_h = "b_ih"
    /\ weight_i_r = "w_ih_reverse" /\ weight_h_r = "w_hh_reverse"
    /\ bias_i_r = "b_hh_reverse" /\ bias_h_r = "b_ih_reverse"
    /\ DataUnset

\* After the data cell: batch_x is set.
ConvInit ==
    /\ cpc = "embed"
    /\ batch_x \in ConvBatches
    /\ batch_x_embed = Unset /\ window_size = 0
    /\ pad_size = 0 /\ batch_x_embed_padded = Unset
    /\ conv_output = Unset /\ conv_raised = FALSE
    /\ LstmIdle

\* batch_x_embed = embedding(batch_x)
ConvEmbed ==
    /\ cpc = "embed"
    /\ batch_x_embed' = Embed(batch_x)
    /\ cpc' = "layer"
    /\ UNCHANGED <<batch_x, window_size, pad_size, batch_x_embed_padded, conv_output,
                   conv_raised, lstmVars>>

\* window_size = ...; conv_encoder = nn.Conv2d(..., kernel_size=(window_size, input_dim))
ConvLayer ==
    /\ cpc = "layer"
    /\ \E w \in 1..MaxWindow : window_size' = w
    /\ cpc' = "narrow"
    /\ UNCHANGED <<batch_x, batch_x_embed, pad_size, batch_x_embed_padded, conv_output,
                   conv_raised, lstmVars>>

\* The narrow convolution: unsqueeze, then conv_encoder on the unpadded
\* batch.  When conv_encoder raises, conv_output is not assigned; the cells
\* after it only need batch_x_embed and can still be run.
NarrowConv ==
    /\ cpc = "narrow"
    /\ batch_x_embed' = Unsqueeze1(batch_x_embed)
    /\ conv_raised' = ConvRaises(batch_x_embed', window_size)
    /\ conv_output' = IF conv_raised' THEN conv_output ELSE Conv2d(batch_x_embed', window_size)
    /\ cpc' = "pad"
    /\ UNCHANGED <<batch_x, window_size, pad_size, batch_x_embed_padded, lstmVars>>

\* pad_size = (window_size-1) // 2; batch_x_embed_padded = pad_op(batch_x_embed)
PadCell ==
    /\ cpc = "pad"
    /\ pad_size' = PadSize(window_size)
    /\ batch_x_embed_padded' = ZeroPad2d(batch_x_embed, pad_size', pad_size')
    /\ cpc' = "same"
    /\ UNCHANGED <<batch_x, batch_x_embed, window_size, conv_output, conv_raised, lstmVars>>

\* conv_output = conv_encoder(batch_x_embed_padded)
SameConv ==
    /\ cpc = "same"
    /\ conv_raised' = ConvRaises(batch_x_embed_padded, window_size)
    /\ conv_output' = IF conv_raised' THEN conv_output ELSE Conv2d(batch_x_embed_padded, window_size)
    /\ cpc' = "done"
    /\ UNCHANGED <<batch_x, batch_x_embed, window_size, pad_size, batch_x_embed_padded, lstmVars>>

ConvNext ==
    \/ ConvEmbed
    \/ ConvLayer
    \/ NarrowConv
    \/ PadCell
    \/ SameConv

SpecConv == ConvInit /\ [][ConvNext]_vars

----------------------------------------------------------------------------
(* Properties of the convolution notebook (checked under SpecConv) *)

C2_EvenWindowRaises ==
    (cpc = "done" /\ window_size % 2 = 0) => conv_raised

----------------------------------------------------------------------------
(* Properties of the BLSTM notebook (checked under Spec) *)

\* The embedded real tokens of original sentence i, in order, and the state
\* an LSTM direction reaches by consuming a sequence of inputs one by one.
RealInputs(i) == [t \in 1..Len(sentences[i]) |-> Emb(alphabet[sentences[i][t]])]

RECURSIVE FoldCell(_, _, _)
FoldCell(theta, xs, hx) ==
    IF xs = <<>> THEN hx ELSE FoldCell(theta, Tail(xs), LSTMCell(theta, Head(xs), hx))

ForwardState(i) == FoldCell(ThetaF, RealInputs(i), ZeroState)
BackwardState(i) == FoldCell(ThetaR, Reverse(RealInputs(i)), ZeroState)

\* The first input a state has consumed.
RECURSIVE FirstInput(_)
FirstInput(st) == IF st.prev = ZeroState THEN st.x ELSE FirstInput(st.prev)

Rows == 1..Len(sentences)
IsPalindrome(s) == s = Reverse(s)

\* C3: after sorting, packing, unpacking and restoring the order, row i has
\* its original length, and the entry read at each position t of its
\* true-length prefix (by either direction) is the entry of original
\* sentence i at position t.
C3_RoundTrip ==
    pc = "done" =>
        \A i \in Rows :
            /\ lengths_recover[i] = Len(sentences[i])
            /\ \A t \in 1..Len(sentences[i]) :
                /\ lstm_output_pad_recover[i][t][1].h.x = RealInputs(i)[t]
                /\ lstm_output_pad_recover[i][t][2].h.x = RealInputs(i)[t]

C3_Witness ==
    /\ pc = "done" /\ sentences = NotebookSentences
    /\ indices # <<1, 2, 3>>
    /\ lengths_recover = <<2, 5, 3>>
    /\ lstm_output_pad_recover[1][2][1].h.x = Emb(alphabet["day"])

\* C4: the batch_sizes vector of the packed batch has max_len entries, the
\* entry of timestep t is the number of rows longer than t (position t+1 is
\* within them), it never increases, and for lengths [2,5,3] it is
\* [3,3,2,1,1].
C4_BatchSizes ==
    inputs_packed.ok =>
        LET bs == inputs_packed.batch_sizes
        IN  /\ Len(bs) = max_len
            /\ \A t \in 1..Len(bs) : bs[t] = Cardinality({i \in Rows : Len(sentences[i]) >= t})
            /\ \A t \in 1..(Len(bs) - 1) : bs[t] >= bs[t + 1]
            /\ sentences = NotebookSentences => bs = <<3, 3, 2, 1, 1>>

C4_Witness ==
    /\ inputs_packed.ok
    /\ [i \in Rows |-> Len(sentences[i])] = <<2, 5, 3>>
    /\ inputs_packed.batch_sizes = <<3, 3, 2, 1, 1>>

\* C5: the packed data is, timestep after timestep, the entry at that
\* timestep of every row that is still running, in the sorted row order,
\* and nothing else; it has as many entries as there are real tokens, which
\* is also the sum of batch_sizes (10 for lengths [2,5,3]).
C5_PackedData ==
    inputs_packed.ok =>
        LET bs == inputs_packed.batch_sizes
            step(t) == [k \in 1..Cardinality({i \in Rows : Len(sentences[i]) >= t}) |->
                            RealInputs(indices[k])[t]]
        IN  /\ inputs_packed.data = Concat([t \in 1..max_len |-> step(t)])
            /\ Len(inputs_packed.data) = SumSeq([i \in Rows |-> Len(sentences[i])])
            /\ Len(inputs_packed.data) = SumSeq(bs)
            /\ \A k \in 1..Len(inputs_packed.data) : inputs_packed.data[k] # ZeroVec
            /\ sentences = NotebookSentences => Len(inputs_packed.data) = 10

C5_Witness ==
    /\ inputs_packed.ok /\ pc = "lstm"
    /\ sentences = NotebookSentences
    /\ Len(inputs_packed.data) = 10
    /\ inputs_packed.data[4] = Emb(alphabet["like"])

\* C6: indices_recover is the inverse of the permutation the descending sort
\* returned, so row i of lstm_hidden_recover, lstm_output_pad_recover and
\* lengths_recover belongs to original sentence i, also when lengths tie;
\* row test_sent_idx of the notebook's batch is ['can', 'a', 'can'].
C6_Recovery ==
    /\ pc \in {"unpack", "done"} =>
        /\ \A k \in Rows : indices_recover[indices[k]] = k /\ indices[indices_recover[k]] = k
        /\ \A i \in Rows : lstm_hidden_recover[i] = lstm_hidden[CHOOSE k \in Rows : indices[k] = i]
        /\ \A i \in Rows : lstm_hidden_recover[i][1] = HiddenOf(ForwardState(i))
    /\ pc = "done" =>
        \A i \in Rows :
            /\ lengths_recover[i] = Len(sentences[i])
            /\ lstm_output_pad_recover[i][Len(sentences[i])][1] = HiddenOf(ForwardState(i))
    /\ (pc \notin {"params", "data"} /\ sentences = NotebookSentences) =>
        sentences[test_sent_idx + 1] = <<"can", "a", "can">>

\* A batch whose lengths tie, sorted into an order that is not the original.
C6_Witness ==
    /\ pc = "done" /\ Len(sentences) = 2
    /\ Len(sentences[1]) = Len(sentences[2]) /\ sentences[1] # sentences[2]
    /\ indices = <<2, 1>>
    /\ lstm_hidden_recover[1][1] = HiddenOf(ForwardState(1))

\* C7: with the reverse parameters equal to the forward ones, a row whose
\* real tokens read the same in both directions gets equal forward-final and
\* backward-final states (hidden and cell), whatever its padding and the
\* other rows.
C7_Palindrome ==
    (pc \in {"unpack", "done"} /\ ThetaF = ThetaR) =>
        \A i \in Rows : IsPalindrome(sentences[i]) =>
            /\ lstm_hidden_recover[i][1] = lstm_hidden_recover[i][2]
            /\ lstm_cell_state[1][indices_recover[i]] = lstm_cell_state[2][indices_recover[i]]

\* ['can', 'a', 'can'] with two padding positions after it, beside two
\* other rows.
C7_Witness ==
    /\ pc = "done" /\ ThetaF = ThetaR
    /\ sentences = NotebookSentences
    /\ IsPalindrome(sentences[3]) /\ max_len > Len(sentences[3])
    /\ lstm_hidden_recover[3][1] = lstm_hidden_recover[3][2]
    /\ lstm_hidden_recover[1][1] # lstm_hidden_recover[1][2]

C9_NonInterference ==
    pc \in {"unpack", "done"} =>
        /\ \A i \in Rows :
            /\ lstm_hidden_recover[i] = <<HiddenOf(ForwardState(i)), HiddenOf(BackwardState(i))>>
            /\ lstm_cell_state[1][indices_recover[i]] = CellOf(ForwardState(i))
            /\ lstm_cell_state[2][indices_recover[i]] = CellOf(BackwardState(i))
            /\ FirstInput(lstm_hidden_recover[i][2].h) = RealInputs(i)[Len(sentences[i])]
            /\ FirstInput(lstm_hidden_recover[i][1].h) = RealInputs(i)[1]
        /\ \A i, j \in Rows : RealInputs(i) = RealInputs(j) =>
               lstm_hidden_recover[i] = lstm_hidden_recover[j]

\* A short row padded beside a longer one.
C9_Witness ==
    /\ pc = "done" /\ Len(sentences) = 2
    /\ Len(sentences[1]) = 1 /\ Len(sentences[2]) = 2
    /\ sentences[1] = SubSeq(sentences[2], 1, 1)
    /\ lstm_hidden_recover[1][2] = HiddenOf(BackwardState(1))
    /\ lstm_hidden_recover[1][2] # lstm_hidden_recover[2][2]

\* The position of the first occurrence of word w in the batch, read row
\* after row.
FirstAt(w) == CHOOSE k \in 1..Len(Concat(sentences)) :
    /\ Concat(sentences)[k] = w
    /\ \A j \in 1..(k - 1) : Concat(sentences)[j] # w

\* C10: in the padded batch, entry (i,t) is 0 exactly when t is past the
\* length of sentence i; the vocabulary indices are 1, 2, 3, .. in order of
\* first occurrence, one per distinct word; every row starts with the indices
\* of its words; max_len is the longest length.
C10_PaddedBatch ==
    pc = "sort" =>
        LET ws == Range(Concat(sentences))
        IN  /\ DOMAIN alphabet = ws
            /\ {alphabet[w] : w \in ws} = 1..Cardinality(ws)
            /\ \A v, w \in ws : FirstAt(v) < FirstAt(w) => alphabet[v] < alphabet[w]
            /\ voc_size = Cardinality(ws) + 1
            /\ Len(inputs) = Len(sentences)
            /\ \A i \in Rows :
                /\ Len(inputs[i]) = max_len
                /\ \A t \in 1..max_len : inputs[i][t] = 0 <=> t > Len(sentences[i])
                /\ \A t \in 1..Len(sentences[i]) : inputs[i][t] = alphabet[sentences[i][t]]
            /\ \A i \in Rows : Len(sentences[i]) <= max_len
            /\ \E i \in Rows : Len(sentences[i]) = max_len

C10_Witness ==
    /\ pc = "sort" /\ sentences = NotebookSentences
    /\ max_len = 5
    /\ inputs[1] = <<1, 2, 0, 0, 0>>
    /\ inputs[3] = <<8, 9, 8, 0, 0>>

\* C11: after unpacking, the final states are found among the per-timestep
\* outputs: for every row i the forward-final hidden state is the forward
\* half of the output at the row's own last position (for a row shorter than
\* max_len the last position of the padded row holds padding instead), and
\* the backward-final hidden state is the backward half of the output at the
\* first position; hidden_last and hidden_last_r, read this way off row
\* test_sent_idx, are the two halves of lstm_hidden_recover[test_sent_idx].
C11_FinalStatesInOutput ==
    pc = "done" =>
        /\ \A i \in Rows :
            /\ lstm_output_pad_recover[i][lengths_recover[i]][1] = lstm_hidden_recover[i][1]
            /\ lstm_output_pad_recover[i][1][2] = lstm_hidden_recover[i][2]
            /\ lengths_recover[i] < max_len =>
                /\ lstm_output_pad_recover[i][max_len] = PadOut
                /\ lstm_output_pad_recover[i][max_len][1] # lstm_hidden_recover[i][1]
        /\ hidden_last = lstm_hidden_recover[test_sent_idx + 1][1]
        /\ hidden_last_r = lstm_hidden_recover[test_sent_idx + 1][2]

\* The notebook's run: ['can', 'a', 'can'], of length 3 in a batch padded to
\* 5, whose two states read off the output are equal as well.
C11_Witness ==
    /\ pc = "done" /\ sentences = NotebookSentences
    /\ lengths_recover[test_sent_idx + 1] = 3 /\ max_len = 5
    /\ hidden_last = lstm_hidden_recover[3][1]
    /\ hidden_last_r = lstm_hidden_recover[3][2]
    /\ hidden_last.h = hidden_last_r.h
    /\ lstm_output_pad_recover[3][5] = PadOut

====
